---- MODULE Spec2Model ----
(***************************************************************************)
(* A model of the rhome_eod_webapp ingestion code: app/ingest.py (the      *)
(* high-water-mark search, the payload field extraction, the live and demo *)
(* ingest runs over the SQLite tables) and app/main.py (the base-URL       *)
(* resolution and the POST /ingest/live endpoint probe).                   *)
(*                                                                         *)
(* Conventions.  Python's None is the integer 0 wherever the code only     *)
(* tests the value for truth (None and 0 are both falsy); a transport      *)
(* error has the status code NoStatus.  time.time() is not a number here:  *)
(* each deadline is a flag that says whether a reading of the clock has    *)
(* already been at or past it; a flag never goes back to FALSE.            *)
(***************************************************************************)
EXTENDS Integers, Sequences, FiniteSets, TLC

VARIABLES
    db,        \* the SQLite file: tables snapshot, job, meta
    environ,   \* os.environ, the variables the ingest reads
    server,    \* the remote API: the highest job id that exists, and its payloads
    pc,        \* control point of the running call
    caller,    \* who called ingest_live: "top" or "demo"
    fh,        \* locals of _find_highest_job_id
    il,        \* locals of ingest_live
    clk,       \* deadline flags of the running call
    hist,      \* history of the running call (probes made, state at entry)
    result,    \* the dict returned by the last call that returned
    totals,    \* main.py: the totals table
    ep,        \* main.py: the run of POST /ingest/live and its response
    bu,        \* main.py: the environment of _simpro_base_url and its result
    fnum       \* an application of _first_number: payload, keys, result

ingestVars == <<db, environ, server, pc, caller, fh, il, clk, hist, result>>

mainVars == <<totals, ep, bu, fnum>>

vars == <<db, environ, server, pc, caller, fh, il, clk, hist, result,
          totals, ep, bu, fnum>>

----------------------------------------------------------------------------
(* Bounds of the model *)

\* spread of the server's highest id around the probe landmarks
Delta == 1
\* probe answers that contradict "exactly the ids 1..N exist", per call of
\* _find_highest_job_id
MaxFaults == 1
\* snapshots after which no further call is started
MaxSnapshots == 2
\* walk probes a time budget leaves room for
MaxWalk == 1
\* walk probes a long time budget leaves room for
MaxLongWalk == 160
\* POST /ingest/live requests
MaxPosts == 2
\* keys in a key list given to _first_number
MaxKeys == 2

----------------------------------------------------------------------------
(* Program constants *)

None == 0
NoStatus == -1
MinProbe == 100
DefaultProbe == 1000
RampCap == 5000000
FallbackHi == 1200
EnoughJobs == 150
DefaultSeconds == 25
DemoSeconds == 10

Max2(a, b) == IF a >= b THEN a ELSE b

SetMax(S) == CHOOSE m \in S : \A x \in S : x <= m

----------------------------------------------------------------------------
(* Text.  A string is a sequence of words; consecutive words are separated  *)
(* by one space, and the word " " stands for surrounding white space.       *)

LowerWord(w) ==
    CASE w = "Pending"   -> "pending"
      [] w = "In"        -> "in"
      [] w = "Progress"  -> "progress"
      [] w = "Archived"  -> "archived"
      [] w = "Archival"  -> "archival"
      [] w = "Complete"  -> "complete"
      [] w = "Completed" -> "completed"
      [] w = "Service"   -> "service"
      [] w = "Project"   -> "project"
      [] w = "Unknown"   -> "unknown"
      [] w = "Hold"      -> "hold"
      [] OTHER           -> w

\* str.lower()
Lower(t) == [i \in DOMAIN t |-> LowerWord(t[i])]

\* kw in w, for the keywords the code looks for (the test is case-sensitive)
WordHas(w, kw) ==
    CASE kw = "archive"   -> w \in {"archived"}
      [] kw = "archiv"    -> w \in {"archived", "archival"}
      [] kw = "complete"  -> w \in {"complete", "completed"}
      [] kw = "completed" -> w \in {"completed"}
      [] kw = "progress"  -> w \in {"progress"}
      [] kw = "pending"   -> w \in {"pending"}
      [] kw = "service"   -> w \in {"service"}
      [] OTHER            -> FALSE

\* kw in t, kw a keyword without a space
Has(t, kw) == \E i \in DOMAIN t : WordHas(t[i], kw)

\* "in progress" in t
HasInProgress(t) ==
    \E i \in DOMAIN t : i + 1 \in DOMAIN t /\ t[i] = "in" /\ t[i + 1] = "progress"

RECURSIVE LStrip(_)
LStrip(t) == IF t # <<>> /\ Head(t) = " " THEN LStrip(Tail(t)) ELSE t

RECURSIVE RStrip(_)
RStrip(t) ==
    IF t # <<>> /\ t[Len(t)] = " " THEN RStrip(SubSeq(t, 1, Len(t) - 1)) ELSE t

\* str.strip()
Strip(t) == RStrip(LStrip(t))

\* " ".join(ts)
RECURSIVE Join(_)
Join(ts) == IF ts = <<>> THEN <<>> ELSE Head(ts) \o Join(Tail(ts))

\* decimal numerals, for the numbers the model writes as text
NumeralTable == <<"1", "2", "3", "4", "5", "6", "7", "8", "9", "10", "11", "12",
                  "13", "14", "15", "16", "17", "18", "19", "20", "21", "22",
                  "23", "24", "25", "26", "27", "28", "29", "30">>

Numerals == {"0"} \cup {NumeralTable[i] : i \in DOMAIN NumeralTable}

\* int(w) / float(w) of a numeral
NumeralValue(w) ==
    IF w = "0" THEN 0 ELSE CHOOSE i \in DOMAIN NumeralTable : NumeralTable[i] = w

\* str(n); numbers beyond the table print as the word "n"
NumeralOf(n) ==
    IF n = 0 THEN "0" ELSE IF n \in DOMAIN NumeralTable THEN NumeralTable[n] ELSE "n"

----------------------------------------------------------------------------
(* JSON values: null, numbers, booleans, strings, dicts (functions from key *)
(* names to values) and lists                                               *)

Null      == [t |-> "null"]
Num(n)    == [t |-> "num", v |-> n]
Bool(b)   == [t |-> "bool", v |-> b]
Str(s)    == [t |-> "str", s |-> s]
Dict(d)   == [t |-> "dict", d |-> d]
List(n)   == [t |-> "list", n |-> n]

IsDict(x) == x.t = "dict"

\* Python truth of a value
Truthy(x) ==
    CASE x.t = "null" -> FALSE
      [] x.t = "num"  -> x.v # 0
      [] x.t = "bool" -> x.v
      [] x.t = "str"  -> x.s # <<>>
      [] x.t = "dict" -> DOMAIN x.d # {}
      [] x.t = "list" -> x.n > 0

\* float(x): [ok |-> TRUE, v |-> number], or [ok |-> FALSE] where Python raises
Float(x) ==
    CASE x.t = "num"  -> [ok |-> TRUE, v |-> x.v]
      [] x.t = "bool" -> [ok |-> TRUE, v |-> IF x.v THEN 1 ELSE 0]
      [] x.t = "str"  ->
            LET s == Strip(x.s) IN
            IF Len(s) = 1 /\ s[1] \in Numerals
            THEN [ok |-> TRUE, v |-> NumeralValue(s[1])]
            ELSE [ok |-> FALSE, v |-> 0]
      [] OTHER        -> [ok |-> FALSE, v |-> 0]

\* the keys a dict of the model can hold, in the order str() prints them
KeyOrder == <<"id", "jobId", "name", "stage", "stageName", "status", "type",
              "jobType", "typeObj", "estimatedCost", "budget", "exTaxCost",
              "costToDate", "archived">>

\* the words of a key name inside str(dict)
KeyWords(k) == IF k = "archived" THEN <<"archived">> ELSE <<"k">>

\* str(x), one level of nesting deep
StrFlat(x) ==
    CASE x.t = "null" -> <<"None">>
      [] x.t = "num"  -> <<NumeralOf(x.v)>>
      [] x.t = "bool" -> IF x.v THEN <<"True">> ELSE <<"False">>
      [] x.t = "str"  -> x.s
      [] OTHER        -> <<"{}">>

\* str(x)
PyStr(x) ==
    IF x.t = "dict"
    THEN Join([i \in 1..Len(KeyOrder) |->
                 IF KeyOrder[i] \in DOMAIN x.d
                 THEN KeyWords(KeyOrder[i]) \o StrFlat(x.d[KeyOrder[i]])
                 ELSE <<>>])
    ELSE StrFlat(x)

\* _normalize_text
_normalize_text(x) == IF x.t = "null" THEN <<>> ELSE Strip(PyStr(x))

\* dict.get(k): the value, or None
Get(d, k) == IF k \in DOMAIN d THEN d[k] ELSE Null

----------------------------------------------------------------------------
(* Field extraction from a job payload.  j is the dict (a function from key *)
(* names to values); a key given to _first_number is its split on ".", a    *)
(* sequence of parts.                                                       *)

StageKeys == <<"stageName", "Stage", "jobStage", "jobStageName", "currentStage",
               "status", "statusName">>

TypeKeys == <<"type", "jobType", "jobTypeName", "TypeName">>

\* lines 196-203: the candidate texts, the stage field first
StageCandidates(j) ==
    LET v  == Get(j, "stage")
        c0 == IF IsDict(v) THEN _normalize_text(Get(v.d, "name")) ELSE _normalize_text(v)
        present == SelectSeq(StageKeys, LAMBDA k : k \in DOMAIN j)
    IN  <<c0>> \o [i \in 1..Len(present) |-> _normalize_text(j[present[i]])]

_infer_stage(j) ==
    LET candidates == StageCandidates(j)
        text == Lower(Join(candidates))
    IN  IF Has(text, "archive") THEN <<"Archived">>
        ELSE IF Has(text, "complete") \/ Has(text, "completed") THEN <<"Complete">>
        ELSE IF HasInProgress(text) \/ Has(text, "progress") THEN <<"In", "Progress">>
        ELSE IF Has(text, "pending") THEN <<"Pending">>
        ELSE IF candidates[1] # <<>> THEN candidates[1] ELSE <<"Unknown">>

_infer_type(j) ==
    LET hits == SelectSeq(TypeKeys, LAMBDA k : k \in DOMAIN j /\ Truthy(j[k]))
        a == Get(j, "jobType")
        b == Get(j, "typeObj")
        v == IF Truthy(a) THEN a ELSE IF Truthy(b) THEN b ELSE Dict(<<>>)
    IN  IF hits # <<>> THEN _normalize_text(j[hits[1]])
        ELSE IF IsDict(v) /\ Truthy(Get(v.d, "name")) THEN _normalize_text(v.d["name"])
        ELSE <<"Unknown">>

\* lines 228-235 / 242: the value a key names, if the payload has it
RECURSIVE Walk(_, _)
Walk(node, parts) ==
    IF parts = <<>> THEN [ok |-> TRUE, node |-> node]
    ELSE IF IsDict(node) /\ Head(parts) \in DOMAIN node.d
         THEN Walk(node.d[Head(parts)], Tail(parts))
         ELSE [ok |-> FALSE, node |-> Null]

Lookup(j, k) ==
    IF Len(k) > 1 THEN Walk(Dict(j), k)
    ELSE IF k[1] \in DOMAIN j THEN [ok |-> TRUE, node |-> j[k[1]]]
         ELSE [ok |-> FALSE, node |-> Null]

\* the result of _first_number: a number, or None
NoNumber == [some |-> FALSE, v |-> 0]
Number(n) == [some |-> TRUE, v |-> n]

\* the search that gives up at the first key that is present, whatever it holds
RECURSIVE FirstNumberStopsAtPresent(_, _)
FirstNumberStopsAtPresent(j, keys) ==
    IF keys = <<>> THEN NoNumber
    ELSE LET f == Lookup(j, Head(keys)) IN
         IF f.ok /\ f.node.t # "null"
         THEN (IF Float(f.node).ok THEN Number(Float(f.node).v) ELSE NoNumber)
         ELSE FirstNumberStopsAtPresent(j, Tail(keys))

RECURSIVE _first_number(_, _)
_first_number(j, keys) ==
    IF keys = <<>> THEN NoNumber
    ELSE LET f == Lookup(j, Head(keys)) IN
         IF f.ok /\ f.node.t # "null" /\ Float(f.node).ok
         THEN Number(Float(f.node).v)
         ELSE _first_number(j, Tail(keys))

RECURSIVE _first_text(_, _)
_first_text(j, keys) ==
    IF keys = <<>> THEN <<>>
    ELSE LET f == Lookup(j, Head(keys)) IN
         IF f.ok /\ f.node.t # "null" THEN _normalize_text(f.node)
         ELSE _first_text(j, Tail(keys))

\* "x or 0.0" of an optional number
OrZero(x) == IF x.some THEN x.v ELSE 0

\* _extract_job_fields, for the columns job_id, job_name, stage, type,
\* estimated_cost, actual_cost_to_date and cost_to_complete (the other numeric
\* columns are read by further _first_number calls of the same form)
_extract_job_fields(j) ==
    LET est_cost == _first_number(j,
                       << <<"estimatedCostExTax">>, <<"estimatedCostsExTax">>,
                          <<"estimatedCost">>, <<"budget", "exTaxCost">>,
                          <<"Totals", "CostExTax">>, <<"totalCostEstimatedExTax">> >>)
        act_cost_td == _first_number(j,
                       << <<"actualCostToDateExTax">>, <<"actualCostExTax">>,
                          <<"costToDateExTax">>, <<"costToDate">>,
                          <<"Totals", "ActualCostExTax">> >>)
    IN  [job_id   |-> OrZero(_first_number(j, << <<"id">>, <<"jobId">> >>)),
         job_name |-> _first_text(j, << <<"name">>, <<"jobName">>, <<"title">> >>),
         stage    |-> _infer_stage(j),
         type     |-> _infer_type(j),
         estimated_cost      |-> OrZero(est_cost),
         actual_cost_to_date |-> OrZero(act_cost_td),
         cost_to_complete    |-> IF est_cost.some /\ act_cost_td.some
                                 THEN Num(Max2(0, est_cost.v - act_cost_td.v))
                                 ELSE Null]

\* the activity test without the exclusion of service jobs
IsActiveAnyType(fields) ==
    LET stage == Lower(fields.stage)
    IN  IF Has(stage, "archiv") \/ Has(stage, "complete") THEN FALSE
        ELSE Has(stage, "pending") \/ Has(stage, "progress")

_is_active_project(fields) ==
    LET stage == Lower(fields.stage)
        jtype == Lower(fields.type)
    IN  IF Has(jtype, "service") THEN FALSE
        ELSE IF Has(stage, "archiv") \/ Has(stage, "complete") THEN FALSE
        ELSE IF Has(stage, "pending") \/ Has(stage, "progress") THEN TRUE
        ELSE FALSE

----------------------------------------------------------------------------
(* SQLite tables *)

EmptyDb == [snapshot |-> {}, job |-> {}, meta |-> <<>>]

\* SELECT MAX(id) FROM snapshot; None when the table is empty
MaxSnapshotId(d) ==
    IF d.snapshot = {} THEN None ELSE SetMax({s.id : s \in d.snapshot})

\* AUTOINCREMENT: one more than the largest id ever used (rows are never deleted)
NextRowId(rows) == IF rows = {} THEN 1 ELSE SetMax({r.id : r \in rows}) + 1

\* _db_last_seen_job_id: MAX(job_id) over the rows of the snapshot with the
\* greatest id; None when there is no such row or the maximum is 0
_db_last_seen_job_id(d) ==
    LET sid  == MaxSnapshotId(d)
        ids  == {r.job_id : r \in {x \in d.job : x.snapshot_id = sid}}
    IN  IF d.snapshot = {} \/ ids = {} THEN None
        ELSE IF SetMax(ids) = 0 THEN None ELSE SetMax(ids)

----------------------------------------------------------------------------
(* HTTP probe of one job id: _job_exists *)

\* what a server holding exactly the ids 1..n answers for id
TrueStatus(n, id) == IF 1 <= id /\ id <= n THEN 200 ELSE 404

StatusCodes == {200, 404, 500, NoStatus}

\* the answers a probe can get: the true one, or any other while the call
\* has had fewer contradicting answers than the server gives
Answers(id) ==
    IF hist.faults < server.faults THEN StatusCodes ELSE {TrueStatus(server.n, id)}

\* the history after a probe of id answered sc
Probed(id, sc) ==
    [hist EXCEPT !.faults = IF sc = TrueStatus(server.n, id) THEN @ ELSE @ + 1,
                 !.ok_ids = IF sc = 200 THEN @ \cup {id} ELSE @,
                 !.probes = @ + 1,
                 !.last = id]

\* a reading of the clock against a deadline flag: once past, always past
Reading(flag) == IF flag THEN {TRUE} ELSE {FALSE, TRUE}

----------------------------------------------------------------------------
(* _find_highest_job_id *)

FhInit == [budget |-> 0, probe |-> 0, step |-> 0, ok |-> FALSE, ok_bound |-> FALSE,
           sc |-> 0, lo |-> 0, hi |-> 0, last_good |-> 0, ret |-> None]

StartProbe(last_seen) ==
    Max2(MinProbe, IF last_seen = None THEN DefaultProbe ELSE last_seen)

\* lines 134-142: set the deadline, read the baseline, make the first probe
FindStart ==
    /\ UNCHANGED mainVars
    /\ pc = "find"
    /\ LET p == StartProbe(_db_last_seen_job_id(db)) IN
       \E sc \in Answers(p) :
          /\ fh' = [FhInit EXCEPT !.budget = il.seconds, !.probe = p, !.sc = sc,
                                  !.step = IF sc = 404 THEN Max2(1, p \div 10) ELSE 0]
          /\ hist' = [Probed(p, sc) EXCEPT !.first_probe = p]
          /\ pc' = IF sc = 404 THEN "find_down" ELSE "find_ramp"
    /\ clk' = [clk EXCEPT !.find_end = FALSE]
    /\ UNCHANGED <<db, environ, server, caller, il, result>>

\* lines 143-151: one test of the downward loop, and its body or its exit
FindDown ==
    /\ UNCHANGED mainVars
    /\ pc = "find_down"
    /\ \E late \in Reading(clk.find_end) :
       /\ clk' = [clk EXCEPT !.find_end = late]
       /\ IF ~late /\ fh.probe > 1
          THEN \E sc \in Answers(fh.probe - fh.step) :
                  /\ fh' = [fh EXCEPT !.probe = @ - fh.step,
                                      !.ok = (sc = 200), !.ok_bound = TRUE, !.sc = sc,
                                      !.step = IF sc = 404 /\ @ > 1
                                               THEN Max2(1, @ \div 2) ELSE @]
                  /\ hist' = Probed(fh.probe - fh.step, sc)
                  /\ pc' = IF sc = 200 THEN "find_range" ELSE "find_down"
          ELSE \* the loop ends without a break: "if not ok: return None"
               /\ pc' = IF fh.ok_bound THEN "find_done" ELSE "find_raise"
               /\ fh' = [fh EXCEPT !.ret = None]
               /\ hist' = hist
    /\ UNCHANGED <<db, environ, server, caller, il, result>>

\* lines 154-163: one test of the doubling loop, and its body or its exit
FindRamp ==
    /\ UNCHANGED mainVars
    /\ pc = "find_ramp"
    /\ \E late \in Reading(clk.find_end) :
       /\ clk' = [clk EXCEPT !.find_end = late]
       /\ IF ~late /\ fh.probe < RampCap
          THEN \E sc \in Answers(fh.probe * 2) :
                  /\ fh' = [fh EXCEPT !.probe = IF sc = 200 THEN @ * 2 ELSE @,
                                      !.ok = (sc = 200), !.ok_bound = TRUE, !.sc = sc]
                  /\ hist' = Probed(fh.probe * 2, sc)
                  /\ pc' = IF sc = 200 THEN "find_ramp" ELSE "find_range"
          ELSE /\ pc' = "find_range"
               /\ UNCHANGED <<fh, hist>>
    /\ UNCHANGED <<db, environ, server, caller, il, result>>

\* lines 166-174: the range [lo, hi] and the probe of hi
FindRange ==
    /\ UNCHANGED mainVars
    /\ pc = "find_range"
    /\ \E sc \in Answers(fh.probe * 2) :
          /\ fh' = [fh EXCEPT !.lo = Max2(1, fh.probe),
                              !.hi = IF sc = 200 THEN fh.probe * 4 ELSE fh.probe * 2,
                              !.ok = (sc = 200), !.ok_bound = TRUE, !.sc = sc,
                              !.last_good = Max2(1, fh.probe)]
          /\ hist' = Probed(fh.probe * 2, sc)
    /\ pc' = "find_bsearch"
    /\ UNCHANGED <<db, environ, server, caller, il, clk, result>>

\* the loop test with the range bound off by one
BsearchStopsEarly(lo, hi) == hi - lo > 2

\* the loop test that goes on over a range of two neighbours
BsearchOnNeighbours(lo, hi) == hi - lo >= 1

\* line 175: the binary search goes on while the range holds an unprobed id
BsearchContinues(lo, hi) == hi - lo > 1

\* lines 175-186: one test of the binary search loop, and its body or the return
FindBsearch ==
    /\ UNCHANGED mainVars
    /\ pc = "find_bsearch"
    /\ \E late \in Reading(clk.find_end) :
       /\ clk' = [clk EXCEPT !.find_end = late]
       /\ IF ~late /\ BsearchContinues(fh.lo, fh.hi)
          THEN LET mid == (fh.lo + fh.hi) \div 2 IN
               \E sc \in Answers(mid) :
                  /\ fh' = [fh EXCEPT !.lo = IF sc = 200 THEN mid ELSE @,
                                      !.last_good = IF sc = 200 THEN mid ELSE @,
                                      !.hi = IF sc = 200 THEN @ ELSE mid,
                                      !.ok = (sc = 200), !.sc = sc]
                  /\ hist' = Probed(mid, sc)
                  /\ pc' = "find_bsearch"
          ELSE /\ fh' = [fh EXCEPT !.ret = IF fh.last_good # 0 THEN fh.last_good ELSE None]
               /\ pc' = "find_done"
               /\ hist' = hist
    /\ UNCHANGED <<db, environ, server, caller, il, result>>

FindNext == FindStart \/ FindDown \/ FindRamp \/ FindRange \/ FindBsearch


----------------------------------------------------------------------------
(* os.environ *)

Unset == [set |-> FALSE, s |-> <<>>]
EnvStr(s) == [set |-> TRUE, s |-> s]

\* ingest._env(name, default): the stripped value, or the default when the
\* variable is unset or blank
_env(e, name, default) ==
    IF ~e[name].set \/ Strip(e[name].s) = <<>> THEN default ELSE Strip(e[name].s)

\* os.environ.setdefault(name, value)
SetDefault(e, name, value) ==
    IF e[name].set THEN e ELSE [e EXCEPT ![name] = EnvStr(value)]

\* int(text) of an environment value: [ok |-> FALSE] where Python raises ValueError
ParseInt(t) ==
    IF Len(Strip(t)) = 1 /\ Strip(t)[1] \in Numerals
    THEN [ok |-> TRUE, v |-> NumeralValue(Strip(t)[1])]
    ELSE [ok |-> FALSE, v |-> 0]

----------------------------------------------------------------------------
(* Job payloads the API can answer a probe of id with *)

BaseJob(id) ==
    [id |-> Num(id), name |-> Str(<<"x">>), stage |-> Str(<<"Pending">>),
     type |-> Str(<<"Project">>)]

PayloadTable(id) ==
    << Dict(BaseJob(id)),
      Dict([BaseJob(id) EXCEPT !.stage = Str(<<"In", "Progress">>)]),
      Dict([BaseJob(id) EXCEPT !.stage = Str(<<"Archived">>)]),
      Dict([BaseJob(id) EXCEPT !.stage = Str(<<"Completed">>)]),
      Dict([BaseJob(id) EXCEPT !.stage = Str(<<"On", "Hold">>)]),
      Dict([BaseJob(id) EXCEPT !.stage = Str(<<"Archival", "pending", " ">>)]),
      Dict([BaseJob(id) EXCEPT !.stage = Dict([name |-> Str(<<"Pending">>)])]),
      Dict([BaseJob(id) EXCEPT !.stage = Null]),
      Dict([id |-> Num(id), stage |-> Str(<<"Pending">>), status |-> Str(<<"Complete">>)]),
      Dict([id |-> Num(id), stage |-> Str(<<"Pending">>),
            status |-> Dict([archived |-> Bool(TRUE)])]),
      Dict([id |-> Num(id), stageName |-> Str(<<"in", "progress">>)]),
      Dict([BaseJob(id) EXCEPT !.type = Str(<<"Service">>)]),
      Dict([id |-> Num(id), stage |-> Str(<<"Pending">>), type |-> Str(<<>>),
            jobType |-> Str(<<"service", "job">>)]),
      Dict([id |-> Num(id), stage |-> Str(<<"Pending">>),
            typeObj |-> Dict([name |-> Str(<<"Service">>)])]),
      Dict([jobId |-> Str(<<"7">>), stage |-> Str(<<"Pending">>)]),
      Dict([name |-> Str(<<"x">>), stage |-> Str(<<"Pending">>)]),
      Dict([id |-> Num(id), stage |-> Str(<<"Pending">>),
            estimatedCost |-> Num(9), costToDate |-> Str(<<"4">>)]),
      Dict([id |-> Num(id), stage |-> Str(<<"Pending">>),
            estimatedCost |-> Str(<<"x">>), budget |-> Dict([exTaxCost |-> Num(4)]),
            costToDate |-> Num(9)]),
      Dict(<<>>),
      List(1) >>

NumPayloads == Len(PayloadTable(1))

\* the payload the server holds for id: consecutive ids hold consecutive
\* entries of the table, from the server's offset v on; on a server with
\* v >= NumPayloads every id holds the same entry, v - NumPayloads + 1
PayloadOf(srv, id) ==
    PayloadTable(id)[((IF srv.v < NumPayloads THEN id + srv.v ELSE srv.v) % NumPayloads) + 1]

----------------------------------------------------------------------------
(* Writes to the tables *)

\* _db_insert_snapshot: the table after the insert; the new id is its maximum
_db_insert_snapshot(d) ==
    [d EXCEPT !.snapshot = @ \cup {[id |-> NextRowId(d.snapshot)]}]

\* _db_set_meta: INSERT ... ON CONFLICT(k) DO UPDATE
_db_set_meta(d, k, v) ==
    [d EXCEPT !.meta = [x \in DOMAIN d.meta \cup {k} |-> IF x = k THEN v ELSE d.meta[x]]]

\* a row of the job table
JobRow(id, sid, fields) ==
    [id |-> id, snapshot_id |-> sid, job_id |-> fields.job_id,
     job_name |-> fields.job_name, stage |-> fields.stage, type |-> fields.type,
     estimated_cost |-> fields.estimated_cost,
     actual_cost_to_date |-> fields.actual_cost_to_date,
     cost_to_complete |-> fields.cost_to_complete]

\* the insert that leaves out the last collected job
InsertJobsDropLast(d, sid, jobs) ==
    [d EXCEPT !.job = @ \cup {[id |-> NextRowId(d.job) + i - 1, snapshot_id |-> sid,
                                job_id |-> jobs[i].job_id, job_name |-> jobs[i].job_name,
                                stage |-> jobs[i].stage, type |-> jobs[i].type,
                                estimated_cost |-> jobs[i].estimated_cost,
                                actual_cost_to_date |-> jobs[i].actual_cost_to_date,
                                cost_to_complete |-> jobs[i].cost_to_complete] :
                                i \in 1..(Len(jobs) - 1)}]

\* lines 503-534: executemany INSERT INTO job, one row per collected job
InsertJobs(d, sid, jobs) ==
    [d EXCEPT !.job = @ \cup {JobRow(NextRowId(d.job) + i - 1, sid, jobs[i]) :
                                i \in DOMAIN jobs}]

\* the copy that selects snapshot_id along with the other columns
CloneJobsKeepSid(d, new_sid, last_sid) ==
    LET src == {r \in d.job : r.snapshot_id = last_sid}
        rank(r) == Cardinality({x \in src : x.id < r.id})
    IN  [d EXCEPT !.job = @ \cup {[r EXCEPT !.id = NextRowId(d.job) + rank(r)] : r \in src}]

\* lines 594-603: INSERT INTO job SELECT ... WHERE snapshot_id = last_sid
CloneJobs(d, new_sid, last_sid) ==
    LET src == {r \in d.job : r.snapshot_id = last_sid}
        rank(r) == Cardinality({x \in src : x.id < r.id})
    IN  [d EXCEPT !.job = @ \cup {[r EXCEPT !.id = NextRowId(d.job) + rank(r),
                                            !.snapshot_id = new_sid] : r \in src}]

----------------------------------------------------------------------------
(* Calls and returns *)

NoResult == [kind |-> "none", fn |-> "none", ok |-> FALSE, jobs |-> 0, tried |-> 0,
             snapshot_id |-> 0, cloned_from |-> 0]

IlInit == [args |-> <<>>, seconds |-> 0, snapshot_id |-> 0, hi |-> 0,
           jobs |-> <<>>, tried |-> 0, job_id |-> 0]

HistInit == [faults |-> 0, ok_ids |-> {}, probes |-> 0, first_probe |-> 0, last |-> None,
             db0 |-> EmptyDb, fn |-> "none", arg |-> None, raised |-> FALSE]

\* the deadlines passed so far, and the walk probes the budget leaves room for
ClkInit == [find_end |-> FALSE, walk_end |-> FALSE, sixty |-> FALSE, room |-> MaxWalk]

\* a call ends: its locals are gone; the history keeps the tables at entry
Return(h, raised) ==
    /\ fh' = FhInit
    /\ il' = IlInit
    /\ clk' = ClkInit
    /\ hist' = [HistInit EXCEPT !.db0 = h.db0, !.fn = h.fn, !.arg = h.arg,
                                !.raised = raised]

\* the exception reaches every caller: ingest_demo has no handler
RaisePropagates(who, h) ==
    /\ db' = db
    /\ result' = [NoResult EXCEPT !.kind = "raise", !.fn = IF who = "demo" THEN "demo" ELSE "live"]
    /\ pc' = "idle"
    /\ Return(h, TRUE)

\* an exception leaves ingest_live, called by who: ingest_demo's handler
\* (lines 583-587) catches it and inserts a snapshot, any other caller gets it
Raise(who, h) ==
    /\ IF who = "demo"
       THEN /\ db' = _db_insert_snapshot(db)
            /\ result' = [NoResult EXCEPT !.kind = "return", !.fn = "demo",
                              !.snapshot_id = MaxSnapshotId(_db_insert_snapshot(db))]
       ELSE /\ db' = db
            /\ result' = [NoResult EXCEPT !.kind = "raise", !.fn = "live"]
    /\ pc' = "idle"
    /\ Return(h, TRUE)

\* lines 450-469 of ingest_live, called with args by who: the arguments and the
\* environment, the token, the new snapshot
LiveBegin(e, args, who) ==
    LET e1 == IF Len(args) = 4
              THEN SetDefault(e, "SIMPRO_INGEST_SECONDS", <<NumeralOf(args[3])>>)
              ELSE e
        seconds == ParseInt(_env(e1, "SIMPRO_INGEST_SECONDS", <<NumeralOf(DefaultSeconds)>>))
    IN  /\ environ' = e1
        /\ caller' = who
        /\ \E token_ok \in BOOLEAN :
              IF seconds.ok /\ token_ok
              THEN /\ db' = _db_insert_snapshot(db)
                   /\ clk' = ClkInit
                   /\ fh' = FhInit
                   /\ il' = [IlInit EXCEPT !.args = args, !.seconds = seconds.v,
                                           !.snapshot_id = MaxSnapshotId(_db_insert_snapshot(db))]
                   /\ hist' = [HistInit EXCEPT !.db0 = db, !.fn = who,
                                  !.arg = IF Len(args) = 4 THEN args[3] ELSE None]
                   /\ pc' = "find"
                   /\ result' = NoResult
              ELSE Raise(who, [HistInit EXCEPT !.db0 = db, !.fn = who,
                                  !.arg = IF Len(args) = 4 THEN args[3] ELSE None])

\* the seconds a caller passes in the four-argument style
SecondsArgs == {5, 30}

\* a top-level call ingest_live() or ingest_live(base, cid, seconds, continue_on_error)
CallLive ==
    /\ UNCHANGED mainVars
    /\ pc = "idle"
    /\ Cardinality(db.snapshot) < MaxSnapshots
    /\ \E args \in {<<>>} \cup {<<"base", 0, s, TRUE>> : s \in SecondsArgs} :
          LiveBegin(environ, args, "top")
    /\ UNCHANGED server

\* _find_highest_job_id raised (the unbound "ok" of line 150)
LiveFindRaise ==
    /\ UNCHANGED mainVars
    /\ pc = "find_raise"
    /\ Raise(caller, hist)
    /\ UNCHANGED <<environ, server, caller>>

\* lines 472-481: the start of the walk
LiveAfterFind ==
    /\ UNCHANGED mainVars
    /\ pc = "find_done"
    /\ LET hi == IF fh.ret # None THEN fh.ret
                 ELSE IF _db_last_seen_job_id(db) # None THEN _db_last_seen_job_id(db)
                 ELSE FallbackHi
       IN  il' = [il EXCEPT !.hi = hi, !.jobs = <<>>, !.tried = 0, !.job_id = hi]
    /\ pc' = "walk"
    /\ fh' = FhInit
    /\ hist' = [hist EXCEPT !.ok_ids = {}, !.probes = 0, !.last = None]
    /\ UNCHANGED <<db, environ, server, caller, clk, result>>

\* a reading of the clock against t0 + seconds in the walk
WalkReading ==
    IF il.seconds <= 0 \/ il.tried >= clk.room THEN {TRUE} ELSE Reading(clk.walk_end)

\* the early exit that looks at the number of jobs alone
WalkBreaksOnCount(jobs, past) == Len(jobs) >= EnoughJobs

\* line 495: enough jobs, and more than 60% of the budget gone
WalkBreaks(jobs, past) == Len(jobs) >= EnoughJobs /\ past

\* lines 483-500: one test of the walk loop, and its body or its exit
LiveWalk ==
    /\ UNCHANGED mainVars
    /\ pc = "walk"
    /\ \E late \in WalkReading :
       IF ~late /\ il.job_id >= 1
       THEN \E sc \in Answers(il.job_id) :
            \E j \in {IF sc = 200 THEN PayloadOf(server, il.job_id) ELSE Null} :
               IF sc = 200 /\ Truthy(j) /\ ~IsDict(j)
               THEN \* _infer_stage calls j.get on a value that is no dict
                    Raise(caller, hist)
               ELSE /\ hist' = Probed(il.job_id, sc)
                    /\ UNCHANGED fh
                    /\ \E fields \in {IF sc = 200 /\ Truthy(j)
                                       THEN _extract_job_fields(j.d) ELSE <<>>} :
                       \E jobs \in {IF sc = 200 /\ Truthy(j) /\ _is_active_project(fields)
                                    THEN Append(il.jobs, fields) ELSE il.jobs} :
                           \E past \in IF Len(jobs) >= EnoughJobs
                                       THEN Reading(clk.sixty) ELSE {clk.sixty} :
                              /\ clk' = [clk EXCEPT !.sixty = past]
                              /\ il' = [il EXCEPT !.tried = @ + 1, !.jobs = jobs,
                                          !.job_id = IF WalkBreaks(jobs, past)
                                                     THEN @ ELSE @ - 1]
                              /\ pc' = IF WalkBreaks(jobs, past)
                                       THEN "insert" ELSE "walk"
                              /\ UNCHANGED <<db, result>>
       ELSE /\ clk' = [clk EXCEPT !.walk_end = late, !.sixty = @ \/ late]
            /\ pc' = "insert"
            /\ UNCHANGED <<db, il, hist, result, fh>>
    /\ UNCHANGED <<environ, server, caller>>

\* lines 502-560: the job rows, the meta rows, the returned dict
LiveInsert ==
    /\ UNCHANGED mainVars
    /\ pc = "insert"
    /\ LET d1 == InsertJobs(db, il.snapshot_id, il.jobs)
           d2 == _db_set_meta(d1, "last_snapshot_id", il.snapshot_id)
           d3 == IF il.jobs # <<>>
                 THEN _db_set_meta(d2, "last_seen_job_id",
                                   SetMax({il.jobs[i].job_id : i \in DOMAIN il.jobs}))
                 ELSE d2
       IN  db' = d3
    /\ result' = [NoResult EXCEPT !.kind = "return", !.fn = "live", !.ok = TRUE,
                                  !.jobs = Len(il.jobs), !.tried = il.tried,
                                  !.snapshot_id = il.snapshot_id]
    /\ pc' = "idle"
    /\ Return(hist, FALSE)
    /\ UNCHANGED <<environ, server, caller>>

\* ingest_demo: clone the latest snapshot, or fall back to a live run
CallDemo ==
    /\ UNCHANGED mainVars
    /\ pc = "idle"
    /\ Cardinality(db.snapshot) < MaxSnapshots
    /\ IF MaxSnapshotId(db) = None
       THEN LiveBegin(SetDefault(environ, "SIMPRO_INGEST_SECONDS", <<NumeralOf(DemoSeconds)>>),
                      <<>>, "demo")
       ELSE /\ db' = CloneJobs(_db_insert_snapshot(db),
                               MaxSnapshotId(_db_insert_snapshot(db)), MaxSnapshotId(db))
            /\ result' = [NoResult EXCEPT !.kind = "return", !.fn = "demo", !.ok = TRUE,
                             !.jobs = -1,
                             !.snapshot_id = MaxSnapshotId(_db_insert_snapshot(db)),
                             !.cloned_from = MaxSnapshotId(db)]
            /\ hist' = [HistInit EXCEPT !.db0 = db, !.fn = "demo"]
            /\ caller' = "demo"
            /\ UNCHANGED <<environ, pc, fh, il, clk>>
    /\ UNCHANGED server

----------------------------------------------------------------------------
(* main.py: _env and _simpro_base_url.  A URL is a text whose words are its *)
(* pieces: a scheme with its "//", a "/", a host or path name.              *)

\* main._env(name): os.getenv, stripped when it is a string
MainEnv(e, name) == IF e[name].set THEN EnvStr(Strip(e[name].s)) ELSE Unset

\* Python truth of an optional string
NonEmpty(v) == v.set /\ v.s # <<>>

\* str.rstrip("/")
RECURSIVE RStripSlash(_)
RStripSlash(t) ==
    IF t # <<>> /\ t[Len(t)] = "/" THEN RStripSlash(SubSeq(t, 1, Len(t) - 1)) ELSE t

\* the pieces before the first "/"
RECURSIVE UpToSlash(_)
UpToSlash(t) ==
    IF t = <<>> \/ Head(t) = "/" THEN <<>> ELSE <<Head(t)>> \o UpToSlash(Tail(t))

\* urlparse(url).netloc: what follows the scheme's "//", up to the next "/"
Netloc(url) ==
    IF url # <<>> /\ Head(url) \in {"https://", "http://"} THEN UpToSlash(Tail(url))
    ELSE <<>>

\* tenant.replace("https://", "").replace("http://", "")
WithoutScheme(t) ==
    SelectSeq(SelectSeq(t, LAMBDA w : w # "https://"), LAMBDA w : w # "http://")

ApiOf(host) == <<"https://">> \o host \o <<"/", "api", "/", "v1.0">>

DefaultBase == <<"https://", "rhome.simprosuite.com", "/", "api", "/", "v1.0">>

\* the resolution that asks SIMPRO_TENANT before SIMPRO_TOKEN_URL
BaseUrlTenantFirst(e) ==
    LET base      == MainEnv(e, "SIMPRO_BASE_URL")
        token_url == MainEnv(e, "SIMPRO_TOKEN_URL")
        tenant    == MainEnv(e, "SIMPRO_TENANT")
    IN  IF NonEmpty(base) THEN RStripSlash(base.s)
        ELSE IF NonEmpty(tenant) THEN ApiOf(WithoutScheme(tenant.s))
        ELSE IF NonEmpty(token_url) /\ Netloc(token_url.s) # <<>>
             THEN ApiOf(Netloc(token_url.s))
        ELSE DefaultBase

_simpro_base_url(e) ==
    LET base      == MainEnv(e, "SIMPRO_BASE_URL")
        token_url == MainEnv(e, "SIMPRO_TOKEN_URL")
        tenant    == MainEnv(e, "SIMPRO_TENANT")
    IN  IF NonEmpty(base) THEN RStripSlash(base.s)
        ELSE IF NonEmpty(token_url) /\ Netloc(token_url.s) # <<>>
             THEN ApiOf(Netloc(token_url.s))
        ELSE IF NonEmpty(tenant) THEN ApiOf(WithoutScheme(tenant.s))
        ELSE DefaultBase

NoEnv == [SIMPRO_BASE_URL |-> Unset, SIMPRO_TOKEN_URL |-> Unset, SIMPRO_TENANT |-> Unset]

BuInit == [env |-> NoEnv, done |-> FALSE, url |-> <<>>]

\* one call of _simpro_base_url
BaseResolve ==
    /\ ~bu.done
    /\ bu' = [bu EXCEPT !.done = TRUE, !.url = _simpro_base_url(bu.env)]
    /\ UNCHANGED <<ingestVars, totals, ep, fnum>>

----------------------------------------------------------------------------
(* main.py: the totals table and POST /ingest/live *)

\* line 44: the keys ensure_schema seeds with 0.0
SeedKeys == {"revenue_today", "revenue_mtd", "materials_cost_today",
             "materials_cost_mtd", "labour_cost_today", "labour_cost_mtd",
             "mtd_gm_pct", "jobs_ingested", "last_ingest_ts"}

TotalsInit == [k \in SeedKeys |-> 0]

\* ensure_schema: INSERT ... ON CONFLICT(key) DO NOTHING for each seed key
ensure_schema(t) ==
    [k \in DOMAIN t \cup SeedKeys |-> IF k \in DOMAIN t THEN t[k] ELSE 0]

\* the write that keeps the value of a key the table already has
SetTotalKeepsOld(t, key, value) ==
    [k \in DOMAIN ensure_schema(t) \cup {key} |->
        IF k \in DOMAIN ensure_schema(t) THEN ensure_schema(t)[k] ELSE value]

\* set_total: ensure_schema, then INSERT ... ON CONFLICT(key) DO UPDATE
set_total(t, key, value) ==
    [k \in DOMAIN ensure_schema(t) \cup {key} |->
        IF k = key THEN value ELSE ensure_schema(t)[k]]

\* lines 237-245
Candidates == <<"Jobs?$top=1", "jobs?$top=1", "ServiceJobs?$top=1", "Projects?$top=1",
                "Companies(0)/Jobs?$top=1", "companies(0)/jobs?$top=1", "$metadata">>

\* what a GET of a candidate can do: raise, or answer with a status and, for
\* 200, a body: JSON (a dict with a "value" list, a list, another dict), JSON
\* by its Content-Type that does not parse, or no JSON at all
GetOutcomes ==
    {[status |-> NoStatus, ctype |-> "none", body |-> Null],
     [status |-> 404, ctype |-> "none", body |-> Null],
     [status |-> 500, ctype |-> "none", body |-> Null],
     [status |-> 200, ctype |-> "json", body |-> Dict([value |-> List(2)])],
     [status |-> 200, ctype |-> "json", body |-> List(3)],
     [status |-> 200, ctype |-> "json", body |-> Dict([d |-> Num(1)])],
     [status |-> 200, ctype |-> "badjson", body |-> Null],
     [status |-> 200, ctype |-> "html", body |-> Null]}

NoResponse == [sent |-> FALSE, ok |-> FALSE, note |-> "", endpoint_found |-> "",
               status |-> 0, count |-> 0, tried |-> <<>>, base_url |-> <<>>]

EpInit == [pc |-> "idle", posts |-> 0, now |-> 0, base |-> <<>>, tried |-> <<>>,
           found |-> "", status |-> 0, body |-> Null, answered |-> {}, resp |-> NoResponse]

\* lines 224-234: the base URL and the token of one POST
PostBegin ==
    /\ ep.pc \in {"idle", "done"}
    /\ ep.posts < MaxPosts
    /\ \E token_ok \in BOOLEAN :
          LET e0 == [EpInit EXCEPT !.posts = ep.posts + 1, !.now = ep.now + 1,
                                   !.base = _simpro_base_url(bu.env)]
          IN  ep' = IF token_ok THEN [e0 EXCEPT !.pc = "loop"]
                    ELSE [e0 EXCEPT !.pc = "done",
                             !.resp = [NoResponse EXCEPT !.sent = TRUE, !.note = "auth_error",
                                          !.base_url = _simpro_base_url(bu.env)]]
    /\ UNCHANGED <<ingestVars, totals, bu, fnum>>

\* lines 251-262: one pass of the loop over the candidates
PostProbe ==
    /\ ep.pc = "loop"
    /\ Len(ep.tried) < Len(Candidates)
    /\ LET path == Candidates[Len(ep.tried) + 1] IN
       \E out \in GetOutcomes :
          LET parsed == out.status = 200 /\ out.ctype # "badjson"
              last   == Len(ep.tried) + 1 = Len(Candidates)
          IN  ep' = [ep EXCEPT
                       !.tried = Append(@, path),
                       !.answered = IF out.status = 200 THEN @ \cup {Len(ep.tried) + 1} ELSE @,
                       !.found = IF out.status = 200 THEN path ELSE @,
                       !.status = IF out.status = 200 /\ ~parsed THEN NoStatus ELSE out.status,
                       !.body = IF parsed
                                THEN (IF out.ctype = "json" THEN out.body ELSE Dict(<<>>))
                                ELSE @,
                       !.pc = IF parsed \/ last THEN "finish" ELSE "loop"]
    /\ UNCHANGED <<ingestVars, totals, bu, fnum>>

\* lines 270-275: the count inferred from the body
InferCount(body) ==
    IF IsDict(body) /\ "value" \in DOMAIN body.d /\ body.d["value"].t = "list"
    THEN body.d["value"].n
    ELSE IF body.t = "list" THEN body.n ELSE 1

\* lines 264-293: the totals and the response
PostFinish ==
    /\ ep.pc = "finish"
    /\ LET t1 == set_total(totals, "last_ingest_ts", ep.now)
           ok == ep.found # "" /\ ep.status = 200
       IN  /\ totals' = IF ok THEN set_total(t1, "jobs_ingested", InferCount(ep.body)) ELSE t1
           /\ ep' = [ep EXCEPT !.pc = "done",
                       !.resp = IF ok
                                THEN [NoResponse EXCEPT !.sent = TRUE, !.ok = TRUE,
                                         !.base_url = ep.base, !.endpoint_found = ep.found,
                                         !.status = ep.status, !.count = InferCount(ep.body),
                                         !.tried = ep.tried]
                                ELSE [NoResponse EXCEPT !.sent = TRUE,
                                         !.note = "probe_404:no_jobs_endpoint_found",
                                         !.status = ep.status, !.base_url = ep.base,
                                         !.tried = ep.tried]]
    /\ UNCHANGED <<ingestVars, bu, fnum>>

\* an application of _first_number
FnumInit == [j |-> <<>>, keys |-> <<>>, done |-> TRUE, result |-> NoNumber]

FirstNumberApply ==
    /\ ~fnum.done
    /\ fnum' = [fnum EXCEPT !.done = TRUE, !.result = _first_number(fnum.j, fnum.keys)]
    /\ UNCHANGED <<ingestVars, totals, ep, bu>>

\* the web process at rest, before any request
MainIdle ==
    /\ totals = TotalsInit
    /\ ep = EpInit
    /\ bu = [BuInit EXCEPT !.done = TRUE]
    /\ fnum = FnumInit

----------------------------------------------------------------------------
(* The ingest process: calls of ingest_live and ingest_demo, one at a time *)

\* highest job ids the API holds in the runs of Spec
ServerNs == {DefaultProbe - 1, DefaultProbe}

Init ==
    /\ db = EmptyDb
    /\ environ = [SIMPRO_INGEST_SECONDS |-> Unset]
    /\ server \in [n : ServerNs, v : 0..(NumPayloads - 1), faults : {0}]
    /\ pc = "idle"
    /\ caller = "top"
    /\ fh = FhInit
    /\ il = IlInit
    /\ clk = ClkInit
    /\ hist = HistInit
    /\ result = NoResult
    /\ MainIdle

Next ==
    \/ CallLive \/ CallDemo
    \/ FindStart \/ FindDown \/ FindRamp \/ FindRange \/ FindBsearch
    \/ LiveFindRaise \/ LiveAfterFind \/ LiveWalk \/ LiveInsert

Spec == Init /\ [][Next]_vars

----------------------------------------------------------------------------
(* One call of _find_highest_job_id, from the tables and the server it can meet *)

\* highest job ids of the servers: around the landmarks of the search
FindNs ==
    {1, RampCap - 1}
    \cup {MinProbe + d : d \in -Delta..Delta}
    \cup {DefaultProbe + d : d \in -Delta..Delta}
    \cup {2 * DefaultProbe + d : d \in -Delta..Delta}

\* the tables: empty, or one snapshot holding one row with the given job_id
SeenDb(job_id) ==
    [snapshot |-> {[id |-> 1]},
     job |-> {JobRow(1, 1, [_extract_job_fields(BaseJob(job_id)) EXCEPT !.job_id = job_id])},
     meta |-> <<>>]

FindDbs == {EmptyDb} \cup {SeenDb(x) : x \in {0, MinProbe \div 2, MinProbe + 50}}

FindInit ==
    /\ db \in FindDbs
    /\ environ = [SIMPRO_INGEST_SECONDS |-> Unset]
    /\ server \in [n : FindNs, v : {0}, faults : 0..MaxFaults]
    /\ pc = "find"
    /\ caller = "top"
    /\ fh = FhInit
    /\ il = [IlInit EXCEPT !.seconds = DefaultSeconds]
    /\ clk = ClkInit
    /\ hist = [HistInit EXCEPT !.db0 = db, !.fn = "find"]
    /\ result = NoResult
    /\ MainIdle

SpecFind == FindInit /\ [][FindNext]_vars

----------------------------------------------------------------------------
(* The walk of ingest_live, from the ids the search can hand it *)

\* what _find_highest_job_id returned: nothing, or an id
WalkRets == {None, 1, 2, MaxWalk + 1, EnoughJobs, MaxLongWalk - 1}

WalkInit ==
    /\ db = _db_insert_snapshot(EmptyDb)
    /\ environ = [SIMPRO_INGEST_SECONDS |-> Unset]
    /\ pc = "find_done"
    /\ caller = "top"
    /\ \E r \in WalkRets : fh = [FhInit EXCEPT !.ret = r]
    /\ \E s \in {0, DefaultSeconds} :
          il = [IlInit EXCEPT !.seconds = s, !.snapshot_id = 1]
    /\ \/ /\ clk = [ClkInit EXCEPT !.room = MaxLongWalk]
          /\ server \in [n : {FallbackHi}, v : 0..(2 * NumPayloads - 1), faults : {0}]
       \/ /\ clk = [ClkInit EXCEPT !.room = MaxWalk + 2]
          /\ server \in [n : {1, FallbackHi}, v : {0}, faults : 0..MaxFaults]
    /\ hist = [HistInit EXCEPT !.db0 = EmptyDb, !.fn = "top"]
    /\ result = NoResult
    /\ MainIdle

WalkNext == LiveAfterFind \/ LiveWalk \/ LiveInsert

SpecWalk == WalkInit /\ [][WalkNext]_vars

----------------------------------------------------------------------------
(* The loops of _find_highest_job_id and of the walk under a clock that      *)
(* never reaches a deadline: each step is taken (every probe returns), the   *)
(* deadlines are never read as passed                                        *)

NoDeadline == ~clk'.find_end /\ ~clk'.walk_end

TermStart == FindStart /\ NoDeadline
TermDown == FindDown /\ NoDeadline
TermRamp == FindRamp /\ NoDeadline
TermRange == FindRange /\ NoDeadline
TermBsearch == FindBsearch /\ NoDeadline
TermWalk == LiveWalk /\ NoDeadline
TermInsert == LiveInsert /\ NoDeadline

\* highest job ids of the servers the search runs against
TermNs == {1, MinProbe, DefaultProbe, DefaultProbe + 1, RampCap - 1}

\* the ids the walk starts from
TermHis == {1, 2, MaxWalk + 1, EnoughJobs, MaxLongWalk - 1}

TermInit ==
    /\ db = _db_insert_snapshot(EmptyDb)
    /\ environ = [SIMPRO_INGEST_SECONDS |-> Unset]
    /\ caller = "top"
    /\ result = NoResult
    /\ MainIdle
    /\ clk = [ClkInit EXCEPT !.room = MaxLongWalk]
    /\ hist = [HistInit EXCEPT !.db0 = EmptyDb, !.fn = "top"]
    /\ fh = FhInit
    /\ \/ /\ pc = "find"
          /\ il = [IlInit EXCEPT !.seconds = DefaultSeconds, !.snapshot_id = 1]
          /\ server \in [n : TermNs, v : {0}, faults : 0..MaxFaults]
       \/ /\ pc = "walk"
          /\ \E hi \in TermHis :
                /\ il = [IlInit EXCEPT !.seconds = DefaultSeconds, !.snapshot_id = 1,
                                       !.hi = hi, !.job_id = hi]
                /\ server \in [n : {FallbackHi}, v : {0, NumPayloads, NumPayloads + 2},
                               faults : IF hi <= MaxWalk + 1 THEN 0..MaxFaults ELSE {0}]

TermNext ==
    \/ TermStart \/ TermDown \/ TermRamp \/ TermRange \/ TermBsearch
    \/ TermWalk \/ TermInsert

SpecTerm == TermInit /\ [][TermNext]_vars /\ WF_vars(TermNext)

----------------------------------------------------------------------------
(* The web process: POST /ingest/live requests, one at a time *)

IngestIdle ==
    /\ db = EmptyDb
    /\ environ = [SIMPRO_INGEST_SECONDS |-> Unset]
    /\ server = [n |-> DefaultProbe, v |-> 0, faults |-> 0]
    /\ pc = "idle"
    /\ caller = "top"
    /\ fh = FhInit
    /\ il = IlInit
    /\ clk = ClkInit
    /\ hist = HistInit
    /\ result = NoResult

MainInit ==
    /\ IngestIdle
    /\ totals = TotalsInit
    /\ ep = EpInit
    /\ bu = [BuInit EXCEPT !.done = TRUE]
    /\ fnum = FnumInit

MainNext == PostBegin \/ PostProbe \/ PostFinish

SpecMain == MainInit /\ [][MainNext]_vars

----------------------------------------------------------------------------
(* _simpro_base_url on the environments it can meet *)

Host == <<"rhome.simprosuite.com">>

BaseValues ==
    {Unset, EnvStr(<<>>), EnvStr(<<" ">>),
     EnvStr(<<"https://">> \o Host \o <<"/", "api", "/", "v1.0">>),
     EnvStr(<<"https://">> \o Host \o <<"/", "api", "/", "v1.0", "/", "/">>),
     EnvStr(<<" ", "https://">> \o Host \o <<"/", "api", "/", " ">>),
     EnvStr(<<"/">>)}

TokenValues ==
    {Unset, EnvStr(<<" ">>),
     EnvStr(<<"https://", "login.simprosuite.com", "/", "oauth2", "/", "token">>),
     EnvStr(<<" ", "http://", "login.simprosuite.com", "/", "oauth2", "/", "token", " ">>),
     EnvStr(<<"login.simprosuite.com", "/", "oauth2", "/", "token">>),
     EnvStr(<<"https://", "/", "oauth2">>)}

TenantValues ==
    {Unset, EnvStr(<<>>), EnvStr(<<"tenant.simprosuite.com">>),
     EnvStr(<<"https://", "tenant.simprosuite.com">>),
     EnvStr(<<" ", "http://", "tenant.simprosuite.com", "/", " ">>),
     EnvStr(<<"https://">>)}

BaseInit ==
    /\ IngestIdle
    /\ totals = TotalsInit
    /\ ep = EpInit
    /\ fnum = FnumInit
    /\ bu \in [env : [SIMPRO_BASE_URL : BaseValues, SIMPRO_TOKEN_URL : TokenValues,
                      SIMPRO_TENANT : TenantValues],
               done : {FALSE}, url : {<<>>}]

SpecBase == BaseInit /\ [][BaseResolve]_vars

----------------------------------------------------------------------------
(* _first_number on the payloads and key lists it can meet *)

NumValues ==
    {Null, Num(7), Num(0), Str(<<"4">>), Str(<<" ", "4", " ">>), Str(<<"x">>), Str(<<>>),
     Bool(TRUE), List(1), Dict([b |-> Num(9)]), Dict([b |-> Null]),
     Dict([b |-> Str(<<"x">>)])}

NumPayloadSet == UNION {[D -> NumValues] : D \in SUBSET {"a", "t"}}

NumKeys == {<<"a">>, <<"t">>, <<"z">>, <<"a", "b">>, <<"t", "b">>}

NumKeyLists == UNION {[1..n -> NumKeys] : n \in 0..MaxKeys}

NumInit ==
    /\ IngestIdle
    /\ totals = TotalsInit
    /\ ep = EpInit
    /\ bu = [BuInit EXCEPT !.done = TRUE]
    /\ fnum \in [j : NumPayloadSet, keys : NumKeyLists, done : {FALSE}, result : {NoNumber}]

SpecNum == NumInit /\ [][FirstNumberApply]_vars

----------------------------------------------------------------------------
(* Properties *)

SnapshotIds(d) == {x.id : x \in d.snapshot}

RowsOf(d, sid) == {r \in d.job : r.snapshot_id = sid}

\* a job row without its row id and its snapshot id
Columns(r) == [r EXCEPT !.id = 0, !.snapshot_id = 0]

LiveReturned == pc = "idle" /\ result.kind = "return" /\ result.fn = "live"

\* C1: every call of ingest_live that returns has added exactly one snapshot
\* row, whose id is result.snapshot_id, and exactly result.jobs job rows, all
\* with that snapshot_id (also when result.jobs = 0); the rows that existed
\* before the call are all still there, unchanged.
C1_LiveAddsOneSnapshot ==
    LiveReturned =>
        /\ hist.db0.snapshot \subseteq db.snapshot
        /\ db.snapshot \ hist.db0.snapshot = {[id |-> result.snapshot_id]}
        /\ result.snapshot_id \notin SnapshotIds(hist.db0)
        /\ hist.db0.job \subseteq db.job
        /\ Cardinality(db.job \ hist.db0.job) = result.jobs
        /\ Cardinality({r.id : r \in db.job}) = Cardinality(db.job)
        /\ \A r \in db.job \ hist.db0.job : r.snapshot_id = result.snapshot_id

C1_Witness ==
    /\ LiveReturned
    /\ result.jobs >= 1
    /\ hist.db0.job # {}

\* the claim's reading of "an active project", on the payload j
ClaimActive(j) ==
    LET stage  == Lower(_infer_stage(j))
        jtype  == Lower(_infer_type(j))
        fields == StageCandidates(j)
    IN  /\ Has(stage, "pending") \/ Has(stage, "progress")
        /\ \A i \in DOMAIN fields :
              ~Has(Lower(fields[i]), "archive") /\ ~Has(Lower(fields[i]), "complete")
        /\ ~Has(jtype, "service")
        /\ _infer_stage(j) # <<"Unknown">>

\* C2: every job row ingest_live writes comes from an active project: a walk
\* step adds a job to the collected list only from a probed payload whose
\* inferred stage contains "pending" or "progress", none of whose stage/status
\* fields mentions "archive" or "complete", whose type does not contain
\* "service" and whose stage is not unknown; and the rows written at the end
\* are exactly rows of the collected jobs.
C2_StoredJobsAreActive ==
    [][ /\ (pc = "walk" /\ pc' = "walk") =>
              \/ il'.jobs = il.jobs
              \/ /\ IsDict(PayloadOf(server, il.job_id))
                 /\ ClaimActive(PayloadOf(server, il.job_id).d)
                 /\ il'.jobs = Append(il.jobs,
                                      _extract_job_fields(PayloadOf(server, il.job_id).d))
        /\ pc = "insert" =>
              \A r \in db'.job \ db.job :
                 \E i \in DOMAIN il.jobs : r = JobRow(r.id, il.snapshot_id, il.jobs[i])
      ]_vars

C2_Witness ==
    /\ LiveReturned
    /\ \E r \in RowsOf(db, result.snapshot_id) : r.stage = <<"In", "Progress">>

\* C3: with exactly the ids 1..N on the server (1 <= N < 5,000,000), no
\* contradicting or failed probe and the deadline never read as reached,
\* _find_highest_job_id returns N, from every starting probe.
C3_FindsHighest ==
    (/\ pc = "find_done"
     /\ hist.faults = 0
     /\ ~clk.find_end
     /\ 1 <= server.n /\ server.n < RampCap) => fh.ret = server.n

C3_Witness ==
    /\ pc = "find_done"
    /\ hist.faults = 0
    /\ ~clk.find_end
    /\ server.n = 2 * DefaultProbe + 1
    /\ hist.first_probe = MinProbe
    /\ fh.ret = server.n

InRun == pc \in {"find", "find_down", "find_ramp", "find_range", "find_bsearch",
                 "find_done", "find_raise", "walk", "insert"}

\* C4: in the call style ingest_live(base, cid, seconds, continue_on_error) the
\* budget of the run is the seconds argument of that call: the walk deadline
\* is t0 + seconds and _find_highest_job_id gets seconds.
C4_BudgetIsArgument ==
    (InRun /\ Len(il.args) = 4) =>
        /\ il.seconds = il.args[3]
        /\ (pc \in {"find_down", "find_ramp", "find_range", "find_bsearch", "find_done"}
               => fh.budget = il.args[3])

DemoCloned ==
    pc = "idle" /\ result.kind = "return" /\ result.fn = "demo" /\ result.cloned_from # 0

C6_DemoSurvivesRaise ==
    (pc = "idle" /\ hist.fn = "demo" /\ hist.raised /\ hist.db0.snapshot = {}) =>
        /\ result.kind = "return"
        /\ ~result.ok
        /\ result.jobs = 0
        /\ result.snapshot_id \in SnapshotIds(db)
        /\ RowsOf(db, result.snapshot_id) = {}

C6_Witness ==
    /\ pc = "idle" /\ hist.fn = "demo" /\ hist.raised
    /\ result.kind = "return"
    /\ Cardinality(db.snapshot) = 2

\* C10: when the run before stored job rows, _find_highest_job_id of the next
\* ingest_live run probes first max(100, highest job_id of that snapshot).
C10_StartsFromBaseline ==
    (/\ pc \in {"find_down", "find_ramp"}
     /\ _db_last_seen_job_id(hist.db0) # None)
        => hist.first_probe = Max2(MinProbe, _db_last_seen_job_id(hist.db0))

\* the earliest candidate, by position, that answered HTTP 200 in this request
FirstAnswer == CHOOSE i \in ep.answered : \A k \in ep.answered : i <= k

\* C7: a POST /ingest/live whose token request succeeded has requested the
\* candidates in list order; when a candidate answered HTTP 200 the response
\* names the first such candidate as endpoint_found and nothing after it was
\* requested; when none answered 200 all seven were requested and ok is false.
C7_StopsAtFirst200 ==
    (ep.pc = "done" /\ ep.resp.note # "auth_error") =>
        /\ ep.resp.tried = SubSeq(Candidates, 1, Len(ep.resp.tried))
        /\ ep.resp.ok =>
              /\ ep.answered # {}
              /\ ep.resp.endpoint_found = Candidates[FirstAnswer]
              /\ Len(ep.resp.tried) = FirstAnswer
        /\ ep.answered = {} =>
              /\ ~ep.resp.ok
              /\ ep.resp.tried = Candidates

\* an environment value that is set and not blank
NonBlank(v) == v.set /\ Strip(v.s) # <<>>

\* C8: (as the code has it) a non-blank SIMPRO_BASE_URL is returned with its
\* surrounding whitespace and then its trailing slashes removed; otherwise a
\* SIMPRO_TOKEN_URL with a host gives https://<host>/api/v1.0; otherwise a
\* non-blank SIMPRO_TENANT, without its scheme, gives https://<tenant>/api/v1.0;
\* otherwise the default; a lower-priority variable never changes the result.
C8_BaseUrlPriority ==
    bu.done =>
        LET base   == bu.env.SIMPRO_BASE_URL
            token  == bu.env.SIMPRO_TOKEN_URL
            tenant == bu.env.SIMPRO_TENANT
            byToken == NonBlank(token) /\ Netloc(Strip(token.s)) # <<>>
        IN  /\ NonBlank(base) => bu.url = RStripSlash(Strip(base.s))
            /\ (~NonBlank(base) /\ byToken) => bu.url = ApiOf(Netloc(Strip(token.s)))
            /\ (~NonBlank(base) /\ ~byToken /\ NonBlank(tenant)) =>
                   bu.url = ApiOf(WithoutScheme(Strip(tenant.s)))
            /\ (~NonBlank(base) /\ ~byToken /\ ~NonBlank(tenant)) => bu.url = DefaultBase

\* a token URL with a host and a tenant are both set, no base URL: the host wins
C8_Witness ==
    /\ bu.done
    /\ ~NonBlank(bu.env.SIMPRO_BASE_URL)
    /\ NonBlank(bu.env.SIMPRO_TOKEN_URL)
    /\ NonBlank(bu.env.SIMPRO_TENANT)
    /\ bu.url = ApiOf(<<"login.simprosuite.com">>)

\* C8 as the spec states it: a non-empty SIMPRO_BASE_URL is returned as given
\* with trailing slashes removed.
C8_BaseUrlAsGiven ==
    (bu.done /\ bu.env.SIMPRO_BASE_URL.set /\ bu.env.SIMPRO_BASE_URL.s # <<>>) =>
        bu.url = RStripSlash(bu.env.SIMPRO_BASE_URL.s)

\* a key is present when the payload has it; a dotted key when each of its
\* parts but the last names a dict that has the next part
Present(j, k) ==
    /\ k[1] \in DOMAIN j
    /\ Len(k) = 2 => (IsDict(j[k[1]]) /\ k[2] \in DOMAIN j[k[1]].d)

ValueAt(j, k) == IF Len(k) = 2 THEN j[k[1]].d[k[2]] ELSE j[k[1]]

\* a key qualifies when it is present, not None and convertible to float
Qualifies(j, k) ==
    /\ Present(j, k)
    /\ ValueAt(j, k).t # "null"
    /\ Float(ValueAt(j, k)).ok

\* C9: _first_number returns the float of the value under the first key of the
\* list that is present, not None and convertible, a dotted key walking nested
\* dicts; it returns None exactly when no key qualifies.
C9_FirstQualifyingKey ==
    fnum.done =>
        LET Q == {i \in DOMAIN fnum.keys : Qualifies(fnum.j, fnum.keys[i])}
        IN  /\ Q = {} <=> fnum.result = NoNumber
            /\ \A i \in Q : (\A k \in Q : i <= k) =>
                   fnum.result = Number(Float(ValueAt(fnum.j, fnum.keys[i])).v)

\* the first key is present but not convertible, the second is dotted and gives
\* the number
C9_Witness ==
    /\ fnum.done
    /\ Len(fnum.keys) = 2
    /\ Present(fnum.j, fnum.keys[1])
    /\ ~Qualifies(fnum.j, fnum.keys[1])
    /\ Len(fnum.keys[2]) = 2
    /\ Qualifies(fnum.j, fnum.keys[2])
    /\ fnum.result = Number(9)

\* C11: at the start of and throughout the binary search of
\* _find_highest_job_id the lower bound lo is an id that a probe of this call
\* answered HTTP 200, and so is any id the function returns, whatever the
\* probes answered (200, 404, another status, a transport error).
C11_LoNamesExistingJob ==
    /\ pc = "find_bsearch" => fh.lo \in hist.ok_ids
    /\ (pc = "find_done" /\ fh.ret # None) => fh.ret \in hist.ok_ids

\* C12: in the walk of ingest_live the k-th probe is of id hi - (k - 1), so the
\* ids go down one by one and none is probed twice; no id below 1 is probed
\* and no probe starts once the deadline was read as passed; tried counts the
\* walk probes, also in the returned dict; and the loop is left before id 1
\* and before the deadline only with at least 150 jobs collected and more
\* than 60% of the budget gone.
C12_WalkOrder ==
    [][ /\ (pc = "walk" /\ pc' \in {"walk", "insert"} /\ hist'.probes # hist.probes) =>
              /\ hist'.probes = hist.probes + 1
              /\ hist'.last = il.hi - hist.probes
              /\ hist'.last = il.job_id
              /\ hist'.last >= 1
              /\ ~clk.walk_end
              /\ il'.tried = hist'.probes
        /\ (pc = "walk" /\ pc' = "insert") =>
              \/ il'.job_id < 1
              \/ clk'.walk_end
              \/ Len(il'.jobs) >= EnoughJobs /\ clk'.sixty
        /\ (pc = "insert" /\ result'.kind = "return") =>
              result'.tried = hist.probes
      ]_vars

\* a walk that ended at its 150th job, above id 1 and before the deadline
C12_Witness ==
    /\ pc = "insert"
    /\ Len(il.jobs) >= EnoughJobs
    /\ il.job_id > 1
    /\ ~clk.walk_end
    /\ clk.sixty
    /\ il.tried = hist.probes
    /\ hist.last = il.job_id

C14_LoopsEnd ==
    /\ <>(pc \in {"find_done", "find_raise", "idle"})
    /\ [][ /\ (pc = "find_down" /\ pc' = "find_down") => fh'.probe < fh.probe
           /\ (pc = "find_ramp" /\ pc' = "find_ramp") =>
                 (fh'.probe = 2 * fh.probe /\ fh.probe < RampCap)
           /\ (pc = "find_bsearch" /\ pc' = "find_bsearch") =>
                 fh'.hi - fh'.lo < fh.hi - fh.lo
           /\ (pc = "walk" /\ pc' = "walk") =>
                 (il'.job_id < il.job_id /\ il.job_id >= 1)
         ]_vars

\* a long walk that went all the way down, no deadline reached
C14_Witness ==
    /\ pc = "insert"
    /\ il.hi = MaxLongWalk - 1
    /\ il.job_id = 0
    /\ il.tried = il.hi
    /\ ~clk.walk_end

============================================================================
